---- MODULE Spec2Model ----
(***************************************************************************)
(* Model of class Application of Vulkan-Engine: the constructor's startup  *)
(* sequence (window, instance + surface, physical device, queue families,  *)
(* logical device, swapchain, image views, graphics pipeline), the         *)
(* negotiation functions it calls, and the destructor.                     *)
(*                                                                         *)
(* The definitions follow src/unnamed/part_001 (declarations in            *)
(* src/unnamed/part_000, lines 1-121).  src/Source/Application.cpp is an   *)
(* earlier revision of the same class: its selection functions are the     *)
(* same statement for statement, its init() stops after initSwapchain and  *)
(* its cleanup() destroys swapchain, surface, device and instance only.    *)
(*                                                                         *)
(* uint32_t values whose full width matters (extents, image counts) are    *)
(* records [hi, lo] of two 16-bit limbs, because the model checker's       *)
(* integers are narrower than 2^32; arithmetic on them is modulo 2^32.     *)
(***************************************************************************)
EXTENDS Integers, Sequences, FiniteSets, TLC

VARIABLES
  pc,                      \* the function the constructor / destructor is about to run
  dtor_i,                  \* index of the destructor statement to run next
  err,                     \* what() of the exception that left the constructor
  failed_stage,            \* the startup stage that threw
  attempted,               \* history: startup stages attempted, in order
  log,                     \* history: create / destroy calls made, in order
  warnings,                \* history: messages written to std::cerr
  window_, instance_, surface_, device_, swapchain_,
  physical_device_,        \* 0 is the null handle, i > 0 is phys_devs[i]
  queue_family_indices_,
  queue_create_infos,      \* pQueueCreateInfos handed to createDevice
  create_info,             \* vk::SwapchainCreateInfoKHR handed to createSwapchainKHR
  swapchain_images_,       \* number of images the driver made
  swapchain_image_views_,  \* number of image views created
  swapchain_format_, swapchain_extent_,
  phys_devs,               \* the driver: what it reports for each physical device
  call, returned, ret      \* a direct call of one negotiation function

vars == <<pc, dtor_i, err, failed_stage, attempted, log, warnings,
          window_, instance_, surface_, device_, swapchain_, physical_device_,
          queue_family_indices_, queue_create_infos, create_info,
          swapchain_images_, swapchain_image_views_, swapchain_format_,
          swapchain_extent_, phys_devs, call, returned, ret>>

(***************************************************************************)
(* Bounds of the model.                                                    *)
(***************************************************************************)
MaxImages == 3
MaxFormats == 2
MaxModes == 2

(***************************************************************************)
(* uint32_t                                                                *)
(***************************************************************************)
U32(n) == [hi |-> n \div 65536, lo |-> n % 65536]

UINT32_MAX == [hi |-> 65535, lo |-> 65535]

Lt32(a, b) == a.hi < b.hi \/ (a.hi = b.hi /\ a.lo < b.lo)

Le32(a, b) == ~Lt32(b, a)

Add32(a, b) ==
  LET s == a.lo + b.lo
  IN  [hi |-> (a.hi + b.hi + (s \div 65536)) % 65536, lo |-> s % 65536]

\* std::clamp(v, lo, hi)
clamp(v, lo, hi) == IF Lt32(v, lo) THEN lo ELSE IF Lt32(hi, v) THEN hi ELSE v

(***************************************************************************)
(* Members with default initialisers.                                      *)
(***************************************************************************)
required_device_extensions_ == {"VK_KHR_swapchain"}

window_width_ == U32(800)

window_height_ == U32(600)

\* std::optional<uint32_t>
nullopt == [has_value |-> FALSE, value |-> 0]

optional(i) == [has_value |-> TRUE, value |-> i]

QueueFamilyIndices ==
  [graphics |-> nullopt, transfer |-> nullopt, compute |-> nullopt, present |-> nullopt]

(***************************************************************************)
(* isDeviceSuitable.  A device d is what the driver reports for it:        *)
(* d.deviceType, d.extensions, d.support (surface capabilities, formats    *)
(* and present modes; support.ok = FALSE when the surface query fails and  *)
(* vulkan.hpp throws), d.queue_families.                                   *)
(***************************************************************************)
\* the loop erasing each reported extension from the set of required ones
unsupported_extensions(d) == required_device_extensions_ \ d.extensions

\* isDeviceSuitable without the check of the required extensions
isDeviceSuitable_NoExtensionCheck(d) ==
  IF d.deviceType # "eDiscreteGpu" THEN "false"
  ELSE IF ~d.support.ok THEN "throw"
  ELSE IF d.support.formats = <<>> \/ d.support.present_modes = <<>> THEN "false"
  ELSE "true"

\* isDeviceSuitable rejecting only a device with neither a format nor a mode
isDeviceSuitable_FormatsAndModesEmpty(d) ==
  IF d.deviceType # "eDiscreteGpu" THEN "false"
  ELSE IF unsupported_extensions(d) # {} THEN "false"
  ELSE IF ~d.support.ok THEN "throw"
  ELSE IF d.support.formats = <<>> /\ d.support.present_modes = <<>> THEN "false"
  ELSE "true"

isDeviceSuitable(d) ==
  IF d.deviceType # "eDiscreteGpu" THEN "false"
  ELSE IF unsupported_extensions(d) # {} THEN "false"
  ELSE IF ~d.support.ok THEN "throw"
  ELSE IF d.support.formats = <<>> \/ d.support.present_modes = <<>> THEN "false"
  ELSE "true"

(***************************************************************************)
(* findQueueFamilies: one scan in index order, a later family overwrites.  *)
(***************************************************************************)
RECURSIVE findQueueFamiliesFrom(_, _, _)
findQueueFamiliesFrom(props, i, acc) ==
  IF i >= Len(props) THEN acc
  ELSE LET prop == props[i + 1]
           a1 == IF "eGraphics" \in prop.queueFlags
                 THEN [acc EXCEPT !.graphics = optional(i)] ELSE acc
           a2 == IF "eTransfer" \in prop.queueFlags
                 THEN [a1 EXCEPT !.transfer = optional(i)] ELSE a1
           a3 == IF "eCompute" \in prop.queueFlags
                 THEN [a2 EXCEPT !.compute = optional(i)] ELSE a2
           a4 == IF prop.surfaceSupport
                 THEN [a3 EXCEPT !.present = optional(i)] ELSE a3
       IN  findQueueFamiliesFrom(props, i + 1, a4)

\* a scan that keeps the first family found for each role
RECURSIVE findQueueFamiliesFrom_FirstMatch(_, _, _)
findQueueFamiliesFrom_FirstMatch(props, i, acc) ==
  IF i >= Len(props) THEN acc
  ELSE LET prop == props[i + 1]
           a1 == IF "eGraphics" \in prop.queueFlags /\ ~acc.graphics.has_value
                 THEN [acc EXCEPT !.graphics = optional(i)] ELSE acc
           a2 == IF "eTransfer" \in prop.queueFlags /\ ~acc.transfer.has_value
                 THEN [a1 EXCEPT !.transfer = optional(i)] ELSE a1
           a3 == IF "eCompute" \in prop.queueFlags /\ ~acc.compute.has_value
                 THEN [a2 EXCEPT !.compute = optional(i)] ELSE a2
           a4 == IF prop.surfaceSupport /\ ~acc.present.has_value
                 THEN [a3 EXCEPT !.present = optional(i)] ELSE a3
       IN  findQueueFamiliesFrom_FirstMatch(props, i + 1, a4)

findQueueFamilies_FirstMatch(d) ==
  findQueueFamiliesFrom_FirstMatch(d.queue_families, 0, QueueFamilyIndices)

findQueueFamilies(d) == findQueueFamiliesFrom(d.queue_families, 0, QueueFamilyIndices)

(***************************************************************************)
(* The selectors of initSwapchain.                                         *)
(***************************************************************************)
PreferredFormat == [format |-> "eB8G8R8A8Srgb", colorSpace |-> "eSrgbNonlinear"]

RECURSIVE find_if_format(_, _)
find_if_format(formats, i) ==
  IF i > Len(formats) THEN 0
  ELSE IF formats[i] = PreferredFormat THEN i
  ELSE find_if_format(formats, i + 1)

\* chooseSwapSurfaceFormat without the search for the preferred pair
chooseSwapSurfaceFormat_Front(formats) == formats[1]

\* formats must not be empty: front() of an empty vector is undefined
chooseSwapSurfaceFormat(formats) ==
  LET result == find_if_format(formats, 1)
  IN  IF result # 0 THEN formats[result] ELSE formats[1]

RECURSIVE chooseSwapPresentModeFrom(_, _)
chooseSwapPresentModeFrom(present_modes, i) ==
  IF i > Len(present_modes) THEN "eFifo"
  ELSE IF present_modes[i] = "eMailbox" THEN present_modes[i]
  ELSE chooseSwapPresentModeFrom(present_modes, i + 1)

\* chooseSwapPresentMode falling back to the first offered mode
chooseSwapPresentMode_FirstOffered(present_modes) ==
  IF chooseSwapPresentModeFrom(present_modes, 1) = "eMailbox" THEN "eMailbox"
  ELSE IF present_modes # <<>> THEN present_modes[1]
  ELSE "eFifo"

chooseSwapPresentMode(present_modes) == chooseSwapPresentModeFrom(present_modes, 1)

\* chooseSwapExtent taking the current extent unless both components are UINT32_MAX
chooseSwapExtent_BothUndefined(capabilities) ==
  IF capabilities.currentExtent.width # UINT32_MAX \/
     capabilities.currentExtent.height # UINT32_MAX
  THEN capabilities.currentExtent
  ELSE [width  |-> clamp(window_width_,
                         capabilities.minImageExtent.width,
                         capabilities.maxImageExtent.width),
        height |-> clamp(window_height_,
                         capabilities.minImageExtent.height,
                         capabilities.maxImageExtent.height)]

chooseSwapExtent(capabilities) ==
  IF capabilities.currentExtent.width # UINT32_MAX /\
     capabilities.currentExtent.height # UINT32_MAX
  THEN capabilities.currentExtent
  ELSE [width  |-> clamp(window_width_,
                         capabilities.minImageExtent.width,
                         capabilities.maxImageExtent.width),
        height |-> clamp(window_height_,
                         capabilities.minImageExtent.height,
                         capabilities.maxImageExtent.height)]

(***************************************************************************)
(* initSwapchain: image count, sharing mode and the creation descriptor.   *)
(***************************************************************************)
image_count(capabilities) ==
  LET count == Add32(capabilities.minImageCount, U32(1))
  IN  IF Lt32(U32(0), capabilities.maxImageCount)
      THEN clamp(count, capabilities.minImageCount, capabilities.maxImageCount)
      ELSE count

\* image_sharing with the two modes exchanged
image_sharing_Inverted(qfi) ==
  IF qfi.graphics.value = qfi.present.value
  THEN [image_sharing_mode   |-> "eConcurrent",
        queue_family_indices |-> <<qfi.graphics.value, qfi.present.value>>]
  ELSE [image_sharing_mode   |-> "eExclusive",
        queue_family_indices |-> <<>>]

image_sharing(qfi) ==
  IF qfi.graphics.value # qfi.present.value
  THEN [image_sharing_mode   |-> "eConcurrent",
        queue_family_indices |-> <<qfi.graphics.value, qfi.present.value>>]
  ELSE [image_sharing_mode   |-> "eExclusive",
        queue_family_indices |-> <<>>]

SwapchainCreateInfoKHR(swapchain_support, surface_format, qfi) ==
  [minImageCount         |-> image_count(swapchain_support.capabilities),
   imageFormat           |-> surface_format.format,
   imageColorSpace       |-> surface_format.colorSpace,
   imageExtent           |-> chooseSwapExtent(swapchain_support.capabilities),
   imageArrayLayers      |-> 1,
   imageSharingMode      |-> image_sharing(qfi).image_sharing_mode,
   queueFamilyIndexCount |-> Len(image_sharing(qfi).queue_family_indices),
   pQueueFamilyIndices   |-> image_sharing(qfi).queue_family_indices,
   presentMode           |-> chooseSwapPresentMode(swapchain_support.present_modes),
   clipped               |-> TRUE]

(***************************************************************************)
(* initDevice: one vk::DeviceQueueCreateInfo per element of the std::set   *)
(* of the four indices, in ascending order.                                *)
(***************************************************************************)
RECURSIVE set_in_order(_)
set_in_order(S) ==
  IF S = {} THEN <<>>
  ELSE LET m == CHOOSE x \in S : \A y \in S : x <= y
       IN  <<m>> \o set_in_order(S \ {m})

queue_family_set(qfi) ==
  {qfi.graphics.value, qfi.transfer.value, qfi.compute.value, qfi.present.value}

\* one entry per role, from a vector of the four indices instead of a set
DeviceQueueCreateInfos_PerRole(qfi) ==
  LET fams == <<qfi.graphics.value, qfi.transfer.value, qfi.compute.value,
                qfi.present.value>>
  IN  [k \in 1..Len(fams) |-> [queueFamilyIndex |-> fams[k], queueCount |-> 1]]

DeviceQueueCreateInfos(qfi) ==
  LET fams == set_in_order(queue_family_set(qfi))
  IN  [k \in 1..Len(fams) |-> [queueFamilyIndex |-> fams[k], queueCount |-> 1]]

(***************************************************************************)
(* initPhysicalDevice: std::find_if over the enumeration.  The result is   *)
(* the position of the first device that passes (0 for end()), or the      *)
(* exception of the first isDeviceSuitable call that throws.               *)
(***************************************************************************)
\* a search that settles for the last device when none passes
RECURSIVE find_if_suitable_LastIfNone(_, _)
find_if_suitable_LastIfNone(devs, i) ==
  IF i > Len(devs) THEN [threw |-> FALSE, phys_dev |-> Len(devs)]
  ELSE LET s == isDeviceSuitable(devs[i])
       IN  IF s = "throw" THEN [threw |-> TRUE, phys_dev |-> 0]
           ELSE IF s = "true" THEN [threw |-> FALSE, phys_dev |-> i]
           ELSE find_if_suitable_LastIfNone(devs, i + 1)

RECURSIVE find_if_suitable(_, _)
find_if_suitable(devs, i) ==
  IF i > Len(devs) THEN [threw |-> FALSE, phys_dev |-> 0]
  ELSE LET s == isDeviceSuitable(devs[i])
       IN  IF s = "throw" THEN [threw |-> TRUE, phys_dev |-> 0]
           ELSE IF s = "true" THEN [threw |-> FALSE, phys_dev |-> i]
           ELSE find_if_suitable(devs, i + 1)

(***************************************************************************)
(* Control flow of the constructor and of the destructor.                  *)
(***************************************************************************)
ConstructorBody ==
  <<"initSDL", "initInstance", "initPhysicalDevice", "initQueueFamilies",
    "initDevice", "initSwapchain", "initSwapchainImageViews", "initGraphicsPipeline">>

\* where control goes when fn returns normally
AfterReturn(fn) ==
  LET i == CHOOSE k \in 1..Len(ConstructorBody) : ConstructorBody[k] = fn
  IN  IF i = Len(ConstructorBody) THEN "constructed" ELSE ConstructorBody[i + 1]

\* a constructor that swallows the exception and goes on with the next function
AfterThrow_Continue(fn) == AfterReturn(fn)

\* where control goes when fn throws: the constructor has no handler, the
\* exception leaves it, the object is never constructed and its destructor
\* never runs
AfterThrow(fn) == "failed"

\* a destructor that destroys the logical device before the surface
DestructorBody_DeviceBeforeSurface ==
  <<"destroyImageView", "destroySwapchainKHR", "device_.destroy",
    "destroySurfaceKHR", "instance_.destroy", "SDL_DestroyWindow">>

\* a destructor that destroys the swapchain before its image views
DestructorBody_SwapchainBeforeViews ==
  <<"destroySwapchainKHR", "destroyImageView", "destroySurfaceKHR",
    "device_.destroy", "instance_.destroy", "SDL_DestroyWindow">>

\* a destructor that destroys the instance before the surface
DestructorBody_InstanceBeforeSurface ==
  <<"destroyImageView", "destroySwapchainKHR", "instance_.destroy",
    "destroySurfaceKHR", "device_.destroy", "SDL_DestroyWindow">>

DestructorBody ==
  <<"destroyImageView", "destroySwapchainKHR", "destroySurfaceKHR",
    "device_.destroy", "instance_.destroy", "SDL_DestroyWindow">>

Obj(kind, id) == [kind |-> kind, id |-> id]

Create(kind, id, fn) == [op |-> "create", obj |-> Obj(kind, id), fn |-> fn]

Destroy(kind, id, fn) == [op |-> "destroy", obj |-> Obj(kind, id), fn |-> fn]

\* the destroy calls one destructor statement makes
DestructorCalls(stmt, image_views) ==
  CASE stmt = "destroyImageView" ->
         [i \in 1..image_views |-> Destroy("image_view", i, "~Application")]
    [] stmt = "destroySwapchainKHR" -> <<Destroy("swapchain", 0, "~Application")>>
    [] stmt = "destroySurfaceKHR"   -> <<Destroy("surface", 0, "~Application")>>
    [] stmt = "device_.destroy"     -> <<Destroy("device", 0, "~Application")>>
    [] stmt = "instance_.destroy"   -> <<Destroy("instance", 0, "~Application")>>
    [] stmt = "SDL_DestroyWindow"   -> <<Destroy("window", 0, "~Application")>>

Return(fn) == pc' = AfterReturn(fn) /\ UNCHANGED <<err, failed_stage>>

Throw(fn, stage, what) == pc' = AfterThrow(fn) /\ err' = what /\ failed_stage' = stage

NoCreateInfo ==
  [minImageCount |-> U32(0), imageFormat |-> "eUndefined", imageColorSpace |-> "eUndefined",
   imageExtent |-> [width |-> U32(0), height |-> U32(0)], imageArrayLayers |-> 0,
   imageSharingMode |-> "eExclusive", queueFamilyIndexCount |-> 0,
   pQueueFamilyIndices |-> <<>>, presentMode |-> "eUndefined", clipped |-> FALSE]

(***************************************************************************)
(* The constructor, one action per init function.                          *)
(***************************************************************************)
initSDL ==
  /\ pc = "initSDL"
  /\ attempted' = Append(attempted, "window")
  /\ \E r \in {"SDL_Init", "SDL_CreateWindow", "ok"} :
       IF r = "ok"
       THEN /\ window_' = "valid"
            /\ log' = Append(log, Create("window", 0, "initSDL"))
            /\ Return("initSDL")
       ELSE /\ Throw("initSDL", "window", "std::runtime_error")
            /\ UNCHANGED <<window_, log>>
  /\ UNCHANGED <<dtor_i, warnings, instance_, surface_, device_, swapchain_,
                 physical_device_, queue_family_indices_, queue_create_infos,
                 create_info, swapchain_images_, swapchain_image_views_,
                 swapchain_format_, swapchain_extent_, phys_devs, call, returned, ret>>

initInstance ==
  /\ pc = "initInstance"
  /\ \E r \in {"createInstance", "SDL_Vulkan_CreateSurface", "ok"} :
       CASE r = "createInstance" ->
              /\ attempted' = Append(attempted, "instance")
              /\ Throw("initInstance", "instance", "vk::SystemError")
              /\ UNCHANGED <<instance_, surface_, log>>
         [] r = "SDL_Vulkan_CreateSurface" ->
              /\ attempted' = attempted \o <<"instance", "surface">>
              /\ instance_' = "valid"
              /\ log' = Append(log, Create("instance", 0, "initInstance"))
              /\ Throw("initInstance", "surface", "std::runtime_error")
              /\ UNCHANGED surface_
         [] r = "ok" ->
              /\ attempted' = attempted \o <<"instance", "surface">>
              /\ instance_' = "valid"
              /\ surface_' = "valid"
              /\ log' = log \o <<Create("instance", 0, "initInstance"),
                                 Create("surface", 0, "initInstance")>>
              /\ Return("initInstance")
  /\ UNCHANGED <<dtor_i, warnings, window_, device_, swapchain_,
                 physical_device_, queue_family_indices_, queue_create_infos,
                 create_info, swapchain_images_, swapchain_image_views_,
                 swapchain_format_, swapchain_extent_, phys_devs, call, returned, ret>>

initPhysicalDevice ==
  /\ pc = "initPhysicalDevice"
  /\ attempted' = Append(attempted, "physical_device")
  /\ IF Len(phys_devs) = 0
     THEN /\ Throw("initPhysicalDevice", "physical_device", "std::runtime_error")
          /\ UNCHANGED physical_device_
     ELSE LET it == find_if_suitable(phys_devs, 1)
          IN  IF it.threw
              THEN /\ Throw("initPhysicalDevice", "physical_device", "vk::SystemError")
                   /\ UNCHANGED physical_device_
              ELSE IF it.phys_dev = 0
              THEN /\ Throw("initPhysicalDevice", "physical_device", "std::runtime_error")
                   /\ UNCHANGED physical_device_
              ELSE /\ physical_device_' = it.phys_dev
                   /\ Return("initPhysicalDevice")
  /\ UNCHANGED <<dtor_i, log, warnings, window_, instance_, surface_, device_,
                 swapchain_, queue_family_indices_, queue_create_infos,
                 create_info, swapchain_images_, swapchain_image_views_,
                 swapchain_format_, swapchain_extent_, phys_devs, call, returned, ret>>

initQueueFamilies ==
  /\ pc = "initQueueFamilies"
  /\ attempted' = Append(attempted, "queues")
  /\ LET qfi == findQueueFamilies(phys_devs[physical_device_])
     IN  /\ queue_family_indices_' = qfi
         /\ IF ~qfi.graphics.has_value \/ ~qfi.present.has_value
            THEN /\ Throw("initQueueFamilies", "queues", "std::runtime_error")
                 /\ UNCHANGED warnings
            ELSE /\ warnings' = warnings
                      \o (IF ~qfi.transfer.has_value THEN <<"transfer">> ELSE <<>>)
                      \o (IF ~qfi.compute.has_value THEN <<"compute">> ELSE <<>>)
                 /\ Return("initQueueFamilies")
  /\ UNCHANGED <<dtor_i, log, window_, instance_, surface_, device_, swapchain_,
                 physical_device_, queue_create_infos,
                 create_info, swapchain_images_, swapchain_image_views_,
                 swapchain_format_, swapchain_extent_, phys_devs, call, returned, ret>>

initDevice ==
  /\ pc = "initDevice"
  /\ attempted' = Append(attempted, "device")
  /\ IF ~queue_family_indices_.graphics.has_value \/
        ~queue_family_indices_.transfer.has_value \/
        ~queue_family_indices_.compute.has_value \/
        ~queue_family_indices_.present.has_value
     THEN \* std::optional::value() of an empty optional
          /\ Throw("initDevice", "device", "std::bad_optional_access")
          /\ UNCHANGED <<queue_create_infos, device_, log>>
     ELSE /\ queue_create_infos' = DeviceQueueCreateInfos(queue_family_indices_)
          /\ \E created \in BOOLEAN :
               IF created
               THEN /\ device_' = "valid"
                    /\ log' = Append(log, Create("device", 0, "initDevice"))
                    /\ Return("initDevice")
               ELSE /\ Throw("initDevice", "device", "vk::SystemError")
                    /\ UNCHANGED <<device_, log>>
  /\ UNCHANGED <<dtor_i, warnings, window_, instance_, surface_, swapchain_,
                 physical_device_, queue_family_indices_,
                 create_info, swapchain_images_, swapchain_image_views_,
                 swapchain_format_, swapchain_extent_, phys_devs, call, returned, ret>>

SurfaceFormats ==
  [format : {"eB8G8R8A8Srgb", "eB8G8R8A8Unorm"},
   colorSpace : {"eSrgbNonlinear", "eDisplayP3NonlinearEXT"}]

initSwapchain ==
  /\ pc = "initSwapchain"
  /\ attempted' = Append(attempted, "swapchain")
  /\ LET swapchain_support == phys_devs[physical_device_].support
     IN  IF ~swapchain_support.ok
         THEN /\ Throw("initSwapchain", "swapchain", "vk::SystemError")
              /\ UNCHANGED <<create_info, swapchain_, swapchain_images_,
                             swapchain_format_, swapchain_extent_, log>>
         ELSE \E surface_format \in
                   (IF swapchain_support.formats = <<>>
                    THEN SurfaceFormats   \* front() of an empty vector: any value
                    ELSE {chooseSwapSurfaceFormat(swapchain_support.formats)}) :
              LET info == SwapchainCreateInfoKHR(swapchain_support, surface_format,
                                                 queue_family_indices_)
              IN  /\ create_info' = info
                  /\ \E images \in 0..MaxImages :
                       IF images > 0 /\ Le32(info.minImageCount, U32(images))
                       THEN /\ swapchain_' = "valid"
                            /\ swapchain_images_' = images
                            /\ swapchain_format_' = info.imageFormat
                            /\ swapchain_extent_' = info.imageExtent
                            /\ log' = Append(log, Create("swapchain", 0, "initSwapchain"))
                            /\ Return("initSwapchain")
                       ELSE /\ Throw("initSwapchain", "swapchain", "vk::SystemError")
                            /\ UNCHANGED <<swapchain_, swapchain_images_,
                                           swapchain_format_, swapchain_extent_, log>>
  /\ UNCHANGED <<dtor_i, warnings, window_, instance_, surface_, device_,
                 physical_device_, queue_family_indices_, queue_create_infos,
                 swapchain_image_views_, phys_devs, call, returned, ret>>

initSwapchainImageViews ==
  /\ pc = "initSwapchainImageViews"
  /\ attempted' = Append(attempted, "image_views")
  /\ \E made \in 0..swapchain_images_ :
       /\ swapchain_image_views_' = made
       /\ log' = log \o [i \in 1..made |->
                           Create("image_view", i, "initSwapchainImageViews")]
       /\ IF made = swapchain_images_
          THEN Return("initSwapchainImageViews")
          ELSE Throw("initSwapchainImageViews", "image_views", "vk::SystemError")
  /\ UNCHANGED <<dtor_i, warnings, window_, instance_, surface_, device_, swapchain_,
                 physical_device_, queue_family_indices_, queue_create_infos,
                 create_info, swapchain_images_,
                 swapchain_format_, swapchain_extent_, phys_devs, call, returned, ret>>

initGraphicsPipeline ==
  /\ pc = "initGraphicsPipeline"
  /\ attempted' = Append(attempted, "pipeline")
  /\ \E r \in {"readFile", "createShaderModule vert", "createShaderModule frag", "ok"} :
       CASE r = "readFile" ->
              /\ Throw("initGraphicsPipeline", "pipeline", "std::runtime_error")
              /\ UNCHANGED log
         [] r = "createShaderModule vert" ->
              /\ Throw("initGraphicsPipeline", "pipeline", "vk::SystemError")
              /\ UNCHANGED log
         [] r = "createShaderModule frag" ->
              /\ Throw("initGraphicsPipeline", "pipeline", "vk::SystemError")
              /\ log' = Append(log, Create("shader_module", 1, "initGraphicsPipeline"))
         [] r = "ok" ->
              /\ log' = log \o <<Create("shader_module", 1, "initGraphicsPipeline"),
                                 Create("shader_module", 2, "initGraphicsPipeline"),
                                 Destroy("shader_module", 2, "initGraphicsPipeline"),
                                 Destroy("shader_module", 1, "initGraphicsPipeline")>>
              /\ Return("initGraphicsPipeline")
  /\ UNCHANGED <<dtor_i, warnings, window_, instance_, surface_, device_, swapchain_,
                 physical_device_, queue_family_indices_, queue_create_infos,
                 create_info, swapchain_images_, swapchain_image_views_,
                 swapchain_format_, swapchain_extent_, phys_devs, call, returned, ret>>

(***************************************************************************)
(* run() and the destructor, one step per destructor statement.  Only a    *)
(* constructed object can be run or destroyed.                             *)
(***************************************************************************)
run ==
  /\ pc = "constructed"
  /\ pc' = "ran"
  /\ UNCHANGED <<dtor_i, err, failed_stage, attempted, log, warnings,
                 window_, instance_, surface_, device_, swapchain_, physical_device_,
                 queue_family_indices_, queue_create_infos, create_info,
                 swapchain_images_, swapchain_image_views_, swapchain_format_,
                 swapchain_extent_, phys_devs, call, returned, ret>>

Destructor ==
  /\ pc \in {"constructed", "ran", "~Application"}
  /\ dtor_i <= Len(DestructorBody)
  /\ log' = log \o DestructorCalls(DestructorBody[dtor_i], swapchain_image_views_)
  /\ dtor_i' = dtor_i + 1
  /\ pc' = IF dtor_i = Len(DestructorBody) THEN "destroyed" ELSE "~Application"
  /\ UNCHANGED <<err, failed_stage, attempted, warnings,
                 window_, instance_, surface_, device_, swapchain_, physical_device_,
                 queue_family_indices_, queue_create_infos, create_info,
                 swapchain_images_, swapchain_image_views_, swapchain_format_,
                 swapchain_extent_, phys_devs, call, returned, ret>>

Next ==
  \/ initSDL
  \/ initInstance
  \/ initPhysicalDevice
  \/ initQueueFamilies
  \/ initDevice
  \/ initSwapchain
  \/ initSwapchainImageViews
  \/ initGraphicsPipeline
  \/ run
  \/ Destructor

(***************************************************************************)
(* What the driver may report.                                             *)
(***************************************************************************)
SeqsUpTo(S, n) == UNION {[1..k -> S] : k \in 0..n}

DeviceTypes == {"eDiscreteGpu", "eIntegratedGpu", "eCpu"}

ExtensionSets == SUBSET {"VK_KHR_swapchain", "VK_KHR_maintenance1"}

PresentModes == {"eImmediate", "eMailbox", "eFifo", "eFifoRelaxed"}

Extent2D(w, h) == [width |-> w, height |-> h]

SurfaceCapabilitiesKHR(min_count, max_count, current, min_extent, max_extent) ==
  [minImageCount |-> min_count, maxImageCount |-> max_count,
   currentExtent |-> current, minImageExtent |-> min_extent,
   maxImageExtent |-> max_extent]

\* a surface whose size is fixed by the window system
FixedCapabilities ==
  SurfaceCapabilitiesKHR(U32(1), U32(0), Extent2D(U32(1024), U32(768)),
                         Extent2D(U32(200), U32(200)), Extent2D(U32(1920), U32(1080)))

SwapchainSupportDetails(capabilities, formats, present_modes) ==
  [ok |-> TRUE, capabilities |-> capabilities, formats |-> formats,
   present_modes |-> present_modes]

\* the surface query fails (an out-of-memory or surface-lost result)
QueryFails ==
  [ok |-> FALSE, capabilities |-> FixedCapabilities, formats |-> <<>>,
   present_modes |-> <<>>]

QueueFamilyProperties(flags, surface_support) ==
  [queueFlags |-> flags, surfaceSupport |-> surface_support]

All3 == {"eGraphics", "eTransfer", "eCompute"}

(***************************************************************************)
(* Spec: the whole life of an Application on a machine with no GPU or one  *)
(* GPU of any kind.                                                        *)
(***************************************************************************)
MaxFamilies == 2

LifecycleFamilies ==
  {QueueFamilyProperties(All3, TRUE), QueueFamilyProperties(All3, FALSE),
   QueueFamilyProperties({}, TRUE),
   QueueFamilyProperties({"eGraphics", "eCompute"}, TRUE),
   QueueFamilyProperties({"eGraphics", "eTransfer"}, TRUE)}

LifecycleSupports ==
  {QueryFails,
   SwapchainSupportDetails(FixedCapabilities, <<>>, <<"eFifo">>),
   SwapchainSupportDetails(FixedCapabilities, <<PreferredFormat>>, <<>>),
   SwapchainSupportDetails(FixedCapabilities, <<PreferredFormat>>, <<"eFifo">>)}

LifecycleDevices ==
  [deviceType : DeviceTypes, extensions : ExtensionSets,
   support : LifecycleSupports,
   queue_families : SeqsUpTo(LifecycleFamilies, MaxFamilies)]

NoCall == [fn |-> "none", arg |-> <<>>]

\* the members before the constructor body runs, on a machine whose driver
\* reports devs
Members(devs) ==
  /\ dtor_i = 1
  /\ err = "none"
  /\ failed_stage = "none"
  /\ attempted = <<>>
  /\ log = <<>>
  /\ warnings = <<>>
  /\ window_ = "indeterminate"
  /\ instance_ = "null"
  /\ surface_ = "null"
  /\ device_ = "null"
  /\ swapchain_ = "null"
  /\ physical_device_ = 0
  /\ queue_family_indices_ = QueueFamilyIndices
  /\ queue_create_infos = <<>>
  /\ create_info = NoCreateInfo
  /\ swapchain_images_ = 0
  /\ swapchain_image_views_ = 0
  /\ swapchain_format_ = "eUndefined"
  /\ swapchain_extent_ = Extent2D(U32(0), U32(0))
  /\ phys_devs = devs
  /\ returned = FALSE
  /\ ret = <<>>

Constructing(devs) == pc = "initSDL" /\ call = NoCall /\ Members(devs)

Init == \E devs \in {<<>>} \cup {<<d>> : d \in LifecycleDevices} : Constructing(devs)

Spec == Init /\ [][Next]_vars

(***************************************************************************)
(* SpecSwapchain: the same program on a machine with one suitable GPU,     *)
(* over the surface capabilities and queue families that decide the        *)
(* swapchain descriptor.                                                   *)
(***************************************************************************)
ImageCountLimits ==
  {lim \in [min : {U32(1), U32(2), U32(3), UINT32_MAX},
            max : {U32(0), U32(2), U32(3), U32(4), UINT32_MAX}] :
     lim.max = U32(0) \/ Le32(lim.min, lim.max)}

SwapchainExtents ==
  {Extent2D(U32(1024), U32(768)), Extent2D(UINT32_MAX, UINT32_MAX),
   Extent2D(UINT32_MAX, U32(768))}

SwapchainCapabilities ==
  {SurfaceCapabilitiesKHR(lim.min, lim.max, current,
                          Extent2D(U32(200), U32(200)), Extent2D(U32(1920), U32(1080))) :
     lim \in ImageCountLimits, current \in SwapchainExtents}

SwapchainFamilies ==
  {<<QueueFamilyProperties(All3, TRUE)>>,
   <<QueueFamilyProperties(All3, FALSE), QueueFamilyProperties({}, TRUE)>>,
   <<QueueFamilyProperties({}, TRUE), QueueFamilyProperties(All3, FALSE)>>,
   <<QueueFamilyProperties(All3, TRUE), QueueFamilyProperties({"eTransfer"}, FALSE),
     QueueFamilyProperties({}, TRUE)>>}

SwapchainDevices ==
  {[deviceType |-> "eDiscreteGpu", extensions |-> required_device_extensions_,
    support |-> SwapchainSupportDetails(capabilities, formats, present_modes),
    queue_families |-> families] :
     capabilities \in SwapchainCapabilities,
     formats \in {<<PreferredFormat>>,
                  <<[format |-> "eB8G8R8A8Unorm", colorSpace |-> "eSrgbNonlinear"]>>},
     present_modes \in {<<"eFifo">>, <<"eFifo", "eMailbox">>},
     families \in SwapchainFamilies}

InitSwapchain == \E d \in SwapchainDevices : Constructing(<<d>>)

SpecSwapchain == InitSwapchain /\ [][Next]_vars

(***************************************************************************)
(* SpecSelect: the same program on a machine with up to MaxDevices GPUs,   *)
(* over what decides the selection of the physical device.                 *)
(***************************************************************************)
MaxDevices == 2

SelectDevices ==
  [deviceType : {"eDiscreteGpu", "eIntegratedGpu"},
   extensions : {{}, required_device_extensions_},
   support : LifecycleSupports,
   queue_families : {<<QueueFamilyProperties(All3, TRUE)>>}]

InitSelect == \E devs \in SeqsUpTo(SelectDevices, MaxDevices) : Constructing(devs)

SpecSelect == InitSelect /\ [][Next]_vars

(***************************************************************************)
(* SpecQueues: the same program on a machine with one suitable GPU, over   *)
(* the queue families it may report.                                       *)
(***************************************************************************)
QueueFamilyKinds ==
  {QueueFamilyProperties(flags, surface_support) :
     flags \in SUBSET All3, surface_support \in BOOLEAN}

QueueDevices ==
  {[deviceType |-> "eDiscreteGpu", extensions |-> required_device_extensions_,
    support |-> SwapchainSupportDetails(FixedCapabilities, <<PreferredFormat>>,
                                        <<"eFifo">>),
    queue_families |-> families] :
     families \in SeqsUpTo(QueueFamilyKinds, MaxFamilies)}

InitQueues == \E d \in QueueDevices : Constructing(<<d>>)

SpecQueues == InitQueues /\ [][Next]_vars

(***************************************************************************)
(* SpecFn: one direct call of a negotiation function, over the arguments   *)
(* a driver can supply.                                                    *)
(***************************************************************************)
ProbedDevices ==
  [deviceType : DeviceTypes, extensions : ExtensionSets,
   support : {QueryFails} \cup
             {SwapchainSupportDetails(FixedCapabilities, formats, present_modes) :
                formats \in SeqsUpTo(SurfaceFormats, MaxFormats),
                present_modes \in SeqsUpTo(PresentModes, MaxModes)},
   queue_families : {<<>>}]

Widths == {U32(200), U32(800), U32(1024), U32(1920), UINT32_MAX}

Heights == {U32(200), U32(600), U32(768), U32(1080), UINT32_MAX}

\* the driver keeps minImageExtent <= maxImageExtent on each axis
ExtentCapabilities ==
  {SurfaceCapabilitiesKHR(U32(1), U32(0), current, min_extent, max_extent) :
     current \in [width : Widths, height : Heights],
     min_extent \in [width : Widths, height : Heights],
     max_extent \in [width : Widths, height : Heights]}

CallArguments(fn) ==
  CASE fn = "isDeviceSuitable" -> ProbedDevices
    [] fn = "chooseSwapPresentMode" -> SeqsUpTo(PresentModes, MaxModes)
    [] fn = "chooseSwapExtent" ->
         {c \in ExtentCapabilities :
            /\ Le32(c.minImageExtent.width, c.maxImageExtent.width)
            /\ Le32(c.minImageExtent.height, c.maxImageExtent.height)}
    [] fn = "chooseSwapSurfaceFormat" ->
         SeqsUpTo(SurfaceFormats, MaxFormats) \ {<<>>}
    [] fn = "findQueueFamilies" -> QueueDevices

Calling(fn) ==
  /\ pc = "call"
  /\ \E arg \in CallArguments(fn) : call = [fn |-> fn, arg |-> arg]
  /\ Members(<<>>)

InitFn ==
  \/ Calling("isDeviceSuitable")
  \/ Calling("chooseSwapPresentMode")
  \/ Calling("chooseSwapExtent")
  \/ Calling("chooseSwapSurfaceFormat")
  \/ Calling("findQueueFamilies")

Returns(fn, value) ==
  /\ pc = "call"
  /\ call.fn = fn
  /\ ~returned
  /\ returned' = TRUE
  /\ ret' = value
  /\ UNCHANGED <<pc, dtor_i, err, failed_stage, attempted, log, warnings,
                 window_, instance_, surface_, device_, swapchain_, physical_device_,
                 queue_family_indices_, queue_create_infos, create_info,
                 swapchain_images_, swapchain_image_views_, swapchain_format_,
                 swapchain_extent_, phys_devs, call>>

CallIsDeviceSuitable == Returns("isDeviceSuitable", isDeviceSuitable(call.arg))

CallChooseSwapPresentMode ==
  Returns("chooseSwapPresentMode", chooseSwapPresentMode(call.arg))

CallChooseSwapExtent == Returns("chooseSwapExtent", chooseSwapExtent(call.arg))

CallChooseSwapSurfaceFormat ==
  Returns("chooseSwapSurfaceFormat", chooseSwapSurfaceFormat(call.arg))

CallFindQueueFamilies == Returns("findQueueFamilies", findQueueFamilies(call.arg))

NextFn ==
  \/ CallIsDeviceSuitable
  \/ CallChooseSwapPresentMode
  \/ CallChooseSwapExtent
  \/ CallChooseSwapSurfaceFormat
  \/ CallFindQueueFamilies

SpecFn == InitFn /\ [][NextFn]_vars

(***************************************************************************)
(* Properties.                                                             *)
(***************************************************************************)
Range(seq) == {seq[i] : i \in 1..Len(seq)}

IsPrefix(s, t) == Len(s) <= Len(t) /\ \A i \in 1..Len(s) : s[i] = t[i]

Reverse(seq) == [i \in 1..Len(seq) |-> seq[Len(seq) + 1 - i]]

Objects(events) == [i \in 1..Len(events) |-> events[i].obj]

\* the objects the startup stages window .. image views make
IsStartupObject(e) == e.obj.kind # "shader_module"

IsCreate(e) == e.op = "create" /\ IsStartupObject(e)

IsDestroy(e) == e.op = "destroy" /\ IsStartupObject(e)

ObjectsCreated == Objects(SelectSeq(log, IsCreate))

ObjectsDestroyed == Objects(SelectSeq(log, IsDestroy))

ClaimedStages ==
  {"window", "instance", "surface", "physical_device", "queues", "device",
   "swapchain", "image_views"}

\* C1: after a fatal error at any startup stage, the objects created before
\* it are destroyed, each exactly once, in the exact reverse of their creation
\* order, and nothing else is destroyed.
C1_TeardownAfterError ==
  (pc = "failed" /\ failed_stage \in ClaimedStages)
    => ObjectsDestroyed = Reverse(ObjectsCreated)

ExpectedTeardown ==
  [i \in 1..swapchain_image_views_ |-> Obj("image_view", i)]
    \o <<Obj("swapchain", 0), Obj("surface", 0), Obj("device", 0),
         Obj("instance", 0), Obj("window", 0)>>

\* C2: after a startup in which every stage succeeded, teardown destroys all
\* image views, then the swapchain, the surface, the logical device, the
\* instance and the window, in this order and each exactly once.
C2_TeardownOrder ==
  /\ IsPrefix(ObjectsDestroyed, ExpectedTeardown)
  /\ ObjectsDestroyed # <<>> =>
       /\ failed_stage = "none"
       /\ swapchain_image_views_ = swapchain_images_
       /\ ObjectsCreated = <<Obj("window", 0), Obj("instance", 0), Obj("surface", 0),
                             Obj("device", 0), Obj("swapchain", 0)>>
                           \o [i \in 1..swapchain_image_views_ |-> Obj("image_view", i)]
  /\ pc = "destroyed" => ObjectsDestroyed = ExpectedTeardown

C2_Witness ==
  pc = "destroyed" /\ swapchain_image_views_ >= 2 /\ ObjectsDestroyed = ExpectedTeardown

\* the kinds of object that live inside an object of the given kind
Owned(kind) ==
  CASE kind = "swapchain" -> {"image_view"}
    [] kind = "device"    -> {"swapchain", "image_view"}
    [] kind = "instance"  -> {"surface"}
    [] OTHER              -> {}

\* C3: no object is destroyed while an object it owns is alive (image views
\* before the swapchain, the swapchain before the logical device, the surface
\* before the instance), and the physical device is never destroyed.
C3_OwnedDestroyedFirst ==
  \A i \in 1..Len(log) :
    log[i].op = "destroy" =>
      /\ log[i].obj.kind # "physical_device"
      /\ \A j \in 1..(i - 1) :
           (log[j].op = "create" /\ log[j].obj.kind \in Owned(log[i].obj.kind))
             => \E k \in (j + 1)..(i - 1) :
                  log[k].op = "destroy" /\ log[k].obj = log[j].obj

C3_Witness ==
  /\ pc = "destroyed"
  /\ \E i \in 1..Len(log) : log[i] = Destroy("device", 0, "~Application")
  /\ \E i \in 1..Len(log) : log[i] = Destroy("image_view", 1, "~Application")

StageOrder ==
  <<"window", "instance", "surface", "physical_device", "queues", "device",
    "swapchain", "image_views", "pipeline">>

\* C4: the startup stages are attempted in the fixed order, each at most
\* once, and the stage that fails is the last one attempted.
C4_StagesInOrderNoRetry ==
  /\ IsPrefix(attempted, StageOrder)
  /\ failed_stage # "none" =>
       attempted # <<>> /\ attempted[Len(attempted)] = failed_stage

C4_Witness ==
  pc = "failed" /\ failed_stage = "queues" /\ Len(attempted) < Len(StageOrder)

\* C5: with graphics and present resolved, a missing transfer or compute
\* family is reported as a warning, its index stays unset and is never
\* dereferenced, and startup goes on; a missing graphics or present family
\* is fatal.
C5_DegradedQueuesProceed ==
  "queues" \in Range(attempted) =>
    LET qfi == queue_family_indices_
    IN  IF qfi.graphics.has_value /\ qfi.present.has_value
        THEN /\ failed_stage # "queues"
             /\ ~qfi.transfer.has_value => "transfer" \in Range(warnings)
             /\ ~qfi.compute.has_value => "compute" \in Range(warnings)
             /\ err # "std::bad_optional_access"
        ELSE failed_stage = "queues"

\* C6: isDeviceSuitable returns true exactly when the device is a discrete
\* GPU, reports every required extension, and its swapchain support has at
\* least one surface format and one present mode; it returns false whenever a
\* required extension is missing.  (A surface query that fails yields no
\* support.)
C6_SuitableIffAllThree ==
  (call.fn = "isDeviceSuitable" /\ returned) =>
    LET d == call.arg
        has_extensions == \A e \in required_device_extensions_ : e \in d.extensions
        has_support == /\ d.support.ok
                       /\ Len(d.support.formats) >= 1
                       /\ Len(d.support.present_modes) >= 1
    IN  /\ ret = "true" <=>
             (d.deviceType = "eDiscreteGpu" /\ has_extensions /\ has_support)
        /\ ~has_extensions => ret = "false"

C6_Witness ==
  /\ call.fn = "isDeviceSuitable" /\ returned /\ ret = "false"
  /\ call.arg.deviceType = "eDiscreteGpu"
  /\ call.arg.extensions = {"VK_KHR_maintenance1"}
  /\ call.arg.support.ok
  /\ Len(call.arg.support.formats) = 2
  /\ Len(call.arg.support.present_modes) = 1

\* r is v clamped into [lo, hi]
IsClamped(r, v, lo, hi) ==
  /\ Lt32(v, lo) => r = lo
  /\ Lt32(hi, v) => r = hi
  /\ (Le32(lo, v) /\ Le32(v, hi)) => r = v

WindowClamped(capabilities, extent) ==
  /\ IsClamped(extent.width, U32(800),
               capabilities.minImageExtent.width, capabilities.maxImageExtent.width)
  /\ IsClamped(extent.height, U32(600),
               capabilities.minImageExtent.height, capabilities.maxImageExtent.height)

\* C7 as stated: the window size, clamped, is used when both components of
\* the current extent are the maximum 32-bit value, and the current extent in
\* every other case.
C7_ExtentSentinelBoth ==
  (call.fn = "chooseSwapExtent" /\ returned) =>
    IF call.arg.currentExtent.width = UINT32_MAX /\
       call.arg.currentExtent.height = UINT32_MAX
    THEN WindowClamped(call.arg, ret)
    ELSE ret = call.arg.currentExtent

\* C7 as amended: the window size (800 x 600), clamped on each axis into
\* [minImageExtent, maxImageExtent], is used when the width or the height of
\* the current extent is the maximum 32-bit value; the current extent is used
\* unchanged when neither is.
C7_ExtentSentinelEither ==
  (call.fn = "chooseSwapExtent" /\ returned) =>
    IF call.arg.currentExtent.width = UINT32_MAX \/
       call.arg.currentExtent.height = UINT32_MAX
    THEN WindowClamped(call.arg, ret)
    ELSE ret = call.arg.currentExtent

C7_Witness ==
  /\ call.fn = "chooseSwapExtent" /\ returned
  /\ call.arg.currentExtent = Extent2D(U32(1024), UINT32_MAX)
  /\ call.arg.minImageExtent = Extent2D(U32(200), U32(200))
  /\ call.arg.maxImageExtent = Extent2D(U32(1920), U32(1080))
  /\ ret = Extent2D(U32(800), U32(600))

SwapchainRequested == create_info # NoCreateInfo

SelectedCapabilities == phys_devs[physical_device_].support.capabilities

\* C8: the image count is minImageCount + 1 when maxImageCount is 0 and
\* min(minImageCount + 1, maxImageCount) otherwise.  (minImageCount + 1 is
\* the integer sum: no 32-bit value equals it when minImageCount is the
\* maximum 32-bit value, and it then exceeds every maxImageCount.)
C8_ImageCount ==
  SwapchainRequested =>
    LET min_count == SelectedCapabilities.minImageCount
        max_count == SelectedCapabilities.maxImageCount
        count == create_info.minImageCount
    IN  IF max_count = U32(0)
        THEN min_count # UINT32_MAX /\ count = Add32(min_count, U32(1))
        ELSE IF min_count = UINT32_MAX \/ Lt32(max_count, Add32(min_count, U32(1)))
             THEN count = max_count
             ELSE count = Add32(min_count, U32(1))

\* C9: the sharing mode is concurrent with the index list [graphics, present]
\* when the two indices differ, and exclusive with an empty list when they
\* are equal.
C9_SharingMode ==
  SwapchainRequested =>
    LET graphics == queue_family_indices_.graphics.value
        present == queue_family_indices_.present.value
    IN  IF graphics # present
        THEN /\ create_info.imageSharingMode = "eConcurrent"
             /\ create_info.pQueueFamilyIndices = <<graphics, present>>
             /\ create_info.queueFamilyIndexCount = 2
        ELSE /\ create_info.imageSharingMode = "eExclusive"
             /\ create_info.pQueueFamilyIndices = <<>>
             /\ create_info.queueFamilyIndexCount = 0

C9_Witness ==
  /\ SwapchainRequested
  /\ queue_family_indices_.graphics.value = 0
  /\ queue_family_indices_.present.value = 2
  /\ create_info.pQueueFamilyIndices = <<0, 2>>

\* C10: present-mode selection returns mailbox for every list that contains
\* mailbox and FIFO for every list that does not, the empty list and lists
\* without FIFO included.
C10_PresentMode ==
  (call.fn = "chooseSwapPresentMode" /\ returned) =>
    IF "eMailbox" \in Range(call.arg) THEN ret = "eMailbox" ELSE ret = "eFifo"

C10_Witness ==
  /\ call.fn = "chooseSwapPresentMode" /\ returned
  /\ call.arg = <<"eImmediate", "eFifoRelaxed">>
  /\ ret = "eFifo"

\* C11: over a non-empty list, surface-format selection returns the pair
\* (8-bit BGRA sRGB, sRGB-nonlinear) when the list contains it and the first
\* element of the list otherwise; selecting again from the one-element list
\* of the result returns the same result.
C11_SurfaceFormat ==
  (call.fn = "chooseSwapSurfaceFormat" /\ returned) =>
    LET bgra_srgb == [format |-> "eB8G8R8A8Srgb", colorSpace |-> "eSrgbNonlinear"]
    IN  /\ IF bgra_srgb \in Range(call.arg) THEN ret = bgra_srgb ELSE ret = call.arg[1]
        /\ chooseSwapSurfaceFormat(<<ret>>) = ret

C11_Witness ==
  /\ call.fn = "chooseSwapSurfaceFormat" /\ returned
  /\ call.arg = <<[format |-> "eB8G8R8A8Unorm", colorSpace |-> "eSrgbNonlinear"],
                  [format |-> "eB8G8R8A8Srgb", colorSpace |-> "eSrgbNonlinear"]>>
  /\ ret = call.arg[2]

\* the device is one isDeviceSuitable accepts: a discrete GPU that reports
\* every required extension and at least one surface format and present mode
Passes(d) ==
  /\ d.deviceType = "eDiscreteGpu"
  /\ \A e \in {"VK_KHR_swapchain"} : e \in d.extensions
  /\ d.support.ok
  /\ Len(d.support.formats) >= 1
  /\ Len(d.support.present_modes) >= 1

SelectionAttempted == "physical_device" \in Range(attempted)

\* C12: when the enumeration is empty or no enumerated device passes
\* isDeviceSuitable, physical-device selection ends in a fatal error, no
\* physical device is selected, and no queue resolution, logical device,
\* swapchain or image view follows.
C12_NoSuitableDeviceIsFatal ==
  (SelectionAttempted /\ \A i \in 1..Len(phys_devs) : ~Passes(phys_devs[i])) =>
    /\ pc = "failed"
    /\ failed_stage = "physical_device"
    /\ physical_device_ = 0
    /\ Range(attempted) \cap {"queues", "device", "swapchain", "image_views"} = {}
    /\ queue_family_indices_ = QueueFamilyIndices
    /\ \A i \in 1..Len(log) :
         log[i].obj.kind \notin {"device", "swapchain", "image_view"}

C12_Witness ==
  /\ SelectionAttempted
  /\ Len(phys_devs) = 2
  /\ \A i \in 1..Len(phys_devs) : ~Passes(phys_devs[i])
  /\ phys_devs[1].deviceType = "eDiscreteGpu"
  /\ pc = "failed"
  /\ err = "std::runtime_error"
  /\ physical_device_ = 0

\* the event log[i] creates an object that no later event destroys
LeftAlive(i) ==
  /\ log[i].op = "create"
  /\ \A k \in (i + 1)..Len(log) : ~(log[k].op = "destroy" /\ log[k].obj = log[i].obj)

\* C13: in every run in which window creation or surface creation fails, no
\* instance, logical device, swapchain or image view has been created and
\* left alive.
C13_NoGpuObjectAtWindowOrSurfaceFailure ==
  failed_stage \in {"window", "surface"} =>
    \A i \in 1..Len(log) :
      log[i].obj.kind \in {"instance", "device", "swapchain", "image_view"}
        => ~LeftAlive(i)

\* C14: probing swapchain support never raises: a device whose surface query
\* fails is judged unsuitable and the enumeration goes on, so selection fails
\* only with its own "no suitable device" error and only when no device
\* passes.
C14_ProbeNeverRaises ==
  failed_stage = "physical_device" =>
    /\ err = "std::runtime_error"
    /\ \A i \in 1..Len(phys_devs) : ~Passes(phys_devs[i])

\* the queue family prop offers the role
Offers(prop, role) ==
  CASE role = "graphics" -> "eGraphics" \in prop.queueFlags
    [] role = "transfer" -> "eTransfer" \in prop.queueFlags
    [] role = "compute"  -> "eCompute" \in prop.queueFlags
    [] role = "present"  -> prop.surfaceSupport

Roles == {"graphics", "transfer", "compute", "present"}

\* C15: for each of the four roles independently, queue-family resolution
\* returns the highest family index that offers the role, and leaves the
\* role unset exactly when no family offers it; one index may serve several
\* roles.
C15_HighestFamilyPerRole ==
  (call.fn = "findQueueFamilies" /\ returned) =>
    LET props == call.arg.queue_families
    IN  \A role \in Roles :
          LET offering == {i \in 0..(Len(props) - 1) : Offers(props[i + 1], role)}
          IN  IF offering = {}
              THEN ~ret[role].has_value
              ELSE /\ ret[role].has_value
                   /\ ret[role].value \in offering
                   /\ \A i \in offering : i <= ret[role].value

C15_Witness ==
  /\ call.fn = "findQueueFamilies" /\ returned
  /\ Len(call.arg.queue_families) = 2
  /\ call.arg.queue_families[1] = [queueFlags |-> {"eGraphics", "eTransfer"},
                                   surfaceSupport |-> TRUE]
  /\ call.arg.queue_families[2] = [queueFlags |-> {"eGraphics", "eCompute"},
                                   surfaceSupport |-> FALSE]
  /\ ret.graphics = [has_value |-> TRUE, value |-> 1]
  /\ ret.compute = [has_value |-> TRUE, value |-> 1]
  /\ ret.transfer = [has_value |-> TRUE, value |-> 0]
  /\ ret.present = [has_value |-> TRUE, value |-> 0]

\* C16: when at least one enumerated device passes isDeviceSuitable, the
\* selected physical device is the first one in enumeration order that
\* passes.
C16_FirstPassingSelected ==
  (SelectionAttempted /\ \E i \in 1..Len(phys_devs) : Passes(phys_devs[i])) =>
    /\ physical_device_ \in 1..Len(phys_devs)
    /\ Passes(phys_devs[physical_device_])
    /\ \A j \in 1..(physical_device_ - 1) : ~Passes(phys_devs[j])

\* C17: in every run that reaches swapchain creation, surface-format
\* selection is called with a non-empty format list (the driver reports the
\* same formats at the suitability check and at swapchain creation).
C17_FormatsNonEmptyAtSwapchain ==
  "swapchain" \in Range(attempted) =>
    /\ physical_device_ # 0
    /\ phys_devs[physical_device_].support.formats # <<>>

C17_Witness ==
  /\ "swapchain" \in Range(attempted)
  /\ SwapchainRequested
  /\ Len(phys_devs[physical_device_].support.formats) = 1
  /\ create_info.imageFormat = "eB8G8R8A8Srgb"

\* C18: the image count passed to swapchain creation is never below
\* minImageCount and, when maxImageCount is not 0, never above
\* maxImageCount, for every snapshot with minImageCount <= maxImageCount or
\* maxImageCount = 0, minImageCount = the maximum 32-bit value included.
C18_ImageCountWithinLimits ==
  SwapchainRequested =>
    /\ Le32(SelectedCapabilities.minImageCount, create_info.minImageCount)
    /\ SelectedCapabilities.maxImageCount # U32(0) =>
         Le32(create_info.minImageCount, SelectedCapabilities.maxImageCount)

DeviceRequested == queue_create_infos # <<>>

\* C19: the logical-device creation request has exactly one queue-create
\* entry per distinct family index among the resolved graphics, transfer,
\* compute and present indices: no index twice, every resolved index
\* present, no other index, and one queue requested by each entry.
C19_OneEntryPerDistinctFamily ==
  DeviceRequested =>
    LET resolved == {queue_family_indices_[role].value :
                       role \in {r \in Roles : queue_family_indices_[r].has_value}}
        n == Len(queue_create_infos)
    IN  /\ \A i, j \in 1..n :
             i # j => queue_create_infos[i].queueFamilyIndex
                        # queue_create_infos[j].queueFamilyIndex
        /\ {queue_create_infos[i].queueFamilyIndex : i \in 1..n} = resolved
        /\ \A i \in 1..n : queue_create_infos[i].queueCount = 1

C19_Witness ==
  /\ DeviceRequested
  /\ Len(queue_create_infos) = 2
  /\ queue_family_indices_.graphics.value = queue_family_indices_.compute.value
  /\ queue_family_indices_.graphics.value # queue_family_indices_.present.value
  /\ device_ = "valid"

\* an object of the kind exists after the first n events: created, and not
\* destroyed since
Exists(kind, n) ==
  \E i \in 1..n :
    /\ log[i].op = "create" /\ log[i].obj.kind = kind
    /\ \A k \in (i + 1)..n : ~(log[k].op = "destroy" /\ log[k].obj = log[i].obj)

\* C20: no step uses a handle that is not yet created or already destroyed:
\* the surface exists when suitability and present support are queried, the
\* physical device is selected before queue resolution, the queue indices are
\* resolved before the logical device is requested, the logical device
\* exists when the swapchain and the image views are created and destroyed,
\* the instance exists when the surface is destroyed, and nothing is
\* destroyed that does not exist.
C20_HandlesValidWhenUsed ==
  /\ pc \in {"initPhysicalDevice", "initQueueFamilies"} => Exists("surface", Len(log))
  /\ pc = "initQueueFamilies" => physical_device_ # 0
  /\ pc = "initDevice" =>
       /\ physical_device_ # 0
       /\ queue_family_indices_.graphics.has_value
       /\ queue_family_indices_.present.has_value
  /\ DeviceRequested => \A role \in Roles : queue_family_indices_[role].has_value
  /\ pc \in {"initSwapchain", "initSwapchainImageViews"} =>
       /\ Exists("device", Len(log))
       /\ Exists("surface", Len(log))
       /\ physical_device_ # 0
  /\ pc = "initSwapchainImageViews" => Exists("swapchain", Len(log))
  /\ \A i \in 1..Len(log) :
       /\ log[i].obj.kind \in {"swapchain", "image_view"} => Exists("device", i - 1)
       /\ log[i].obj.kind = "image_view" => Exists("swapchain", i - 1)
       /\ (log[i].op = "create" /\ log[i].obj.kind = "surface")
            => Exists("instance", i - 1)
       /\ log[i].op = "destroy" =>
            /\ \E j \in 1..(i - 1) :
                 /\ log[j].op = "create" /\ log[j].obj = log[i].obj
                 /\ \A k \in (j + 1)..(i - 1) :
                      ~(log[k].op = "destroy" /\ log[k].obj = log[i].obj)
            /\ log[i].obj.kind = "surface" => Exists("instance", i - 1)

C20_Witness ==
  /\ pc = "destroyed"
  /\ swapchain_image_views_ >= 1
  /\ \E i \in 1..Len(log) : log[i] = Destroy("surface", 0, "~Application")
  /\ \E i \in 1..Len(log) : log[i] = Destroy("swapchain", 0, "~Application")

====
